---- MODULE Spec2Model ----
(***************************************************************************)
(* A model of three parts of pyAFQ:                                        *)
(*   - the streamline generator _verbose_generate_tractogram (AFQ/_fixes), *)
(*   - the node weighting gaussian_weights (AFQ/_fixes),                   *)
(*   - the lazy bundle dictionary BundleDict (AFQ/api/bundle_dict).        *)
(* Each part has its own specification (SpecTrack, SpecGW, SpecBD); the    *)
(* variables of the other parts stay at their idle value.                  *)
(***************************************************************************)
EXTENDS Integers, Sequences, FiniteSets, TLC

VARIABLES tk, out, gw, insts, heap, ctor, lastOp, nops, rr

vars == <<tk, out, gw, insts, heap, ctor, lastOp, nops, rr>>

trackVars == <<tk, out>>
gwVars == <<gw>>
bdVars == <<insts, heap, ctor, lastOp, nops, rr>>

Idle == [pc |-> "idle"]

Min(a, b) == IF a < b THEN a ELSE b

RECURSIVE SumSeq(_)
SumSeq(s) == IF s = <<>> THEN 0 ELSE Head(s) + SumSeq(Tail(s))

(***************************************************************************)
(*                 PART 1: _verbose_generate_tractogram                    *)
(***************************************************************************)

\* Bounds of the tracking model.
MaxLength == 3
MaxSeeds == 1
MaxDirs == 2

\* StreamlineStatus values the tracker can return (dipy; TissueTypes in
\* _fixes.py lists the same four).
StreamlineStatus == {"OUTSIDEIMAGE", "INVALIDPOINT", "TRACKPOINT", "ENDPOINT"}

\* The seed position s, as the tracker writes it at index 0 of a buffer.
SeedPt(s) == [seed |-> s, dir |-> 0, side |-> "S", k |-> 0]

\* The k-th point (k >= 1) the tracker writes when tracking seed s along
\* first step d (side "F") or along -d (side "B").
TrackPt(s, d, side, k) == [seed |-> s, dir |-> d, side |-> side, k |-> k]

\* np.empty: a buffer row nobody wrote yet.
Garbage == [seed |-> 0, dir |-> 0, side |-> "U", k |-> 0]

\* F = np.empty((max_length + 1, 3)); B = F.copy()
EmptyBuffer(max_length) == [i \in 1..(max_length + 1) |-> Garbage]

\* A row an earlier call of the tracker wrote: its coordinates belong to
\* another seed or first step.
Stale == [seed |-> 0, dir |-> 0, side |-> "O", k |-> 0]

Aged(p) == IF p = Garbage THEN Garbage ELSE Stale

\* self._tracker(s, first_step, buf): writes steps points into buf (the seed
\* first) and leaves the rest of the buffer as it was, which from now on
\* is rows of an earlier call.
TrackerWrite(buf, s, d, side, steps) ==
  [i \in 1..Len(buf) |->
     IF i = 1 THEN SeedPt(s)
     ELSE IF i <= steps THEN TrackPt(s, d, side, i - 1)
     ELSE Aged(buf[i])]

\* return_all or stream_status is ENDPOINT or OUTSIDEIMAGE
KeepStatus(return_all, status) ==
  return_all \/ status = "ENDPOINT" \/ status = "OUTSIDEIMAGE"

\* B[stepsB - 1:0:-1]
ReversedWithoutSeed(B, stepsB) ==
  [j \in 1..(stepsB - 1) |-> B[stepsB + 1 - j]]

\* A stitching that keeps the seed row of the backward buffer.
StitchKeepsSeed(F, B, stepsF, stepsB) ==
  [j \in 1..stepsB |-> B[stepsB + 1 - j]] \o SubSeq(F, 1, stepsF)

\* The streamline built from the two buffers.
Stitch(F, B, stepsF, stepsB) ==
  IF stepsB = 1
    THEN SubSeq(F, 1, stepsF)
    ELSE ReversedWithoutSeed(B, stepsB) \o SubSeq(F, 1, stepsF)

\* A length filter that forgets the upper limit.
LengthOKNoMax(len_sl, min_length, max_length) ==
  len_sl >= min_length

\* len_sl >= self.min_length and len_sl <= self.max_length
LengthOK(len_sl, min_length, max_length) ==
  len_sl >= min_length /\ len_sl <= max_length

\* directions[:self.max_cross]; max_cross is <<>> for None, <<k>> for k.
SliceCross(nd, max_cross) ==
  IF max_cross = <<>> THEN nd ELSE Min(nd, max_cross[1])

NoYield == [kind |-> "none"]

InitTrack ==
  /\ \E mn \in 1..MaxLength, mx \in 1..MaxLength, ra \in BOOLEAN,
        ss \in BOOLEAN, mc \in {<<>>} \cup {<<k>> : k \in 1..MaxDirs},
        ns \in 1..MaxSeeds :
       tk = [pc |-> "seed", min_length |-> mn, max_length |-> mx,
             return_all |-> ra, save_seeds |-> ss, max_cross |-> mc,
             nseeds |-> ns, seed |-> 0, dirs |-> <<>>,
             F |-> EmptyBuffer(mx), B |-> EmptyBuffer(mx)]
  /\ out = NoYield
  /\ gw = Idle
  /\ insts = <<>> /\ heap = <<>> /\ ctor = Idle /\ lastOp = Idle
  /\ nops = 0 /\ rr = {}

\* for s in self.seeds: ... initial_direction(s); the seed-only yield;
\* directions = directions[:self.max_cross]
NextSeed ==
  /\ tk.pc = "seed"
  /\ tk.seed < tk.nseeds
  /\ \E nd \in 0..MaxDirs :
       LET s == tk.seed + 1
           kept == SliceCross(nd, tk.max_cross)
       IN /\ out' = IF nd = 0 /\ tk.return_all
                      THEN [kind |-> "seedonly", sl |-> <<SeedPt(s)>>,
                            with_seed |-> tk.save_seeds, s |-> s]
                      ELSE NoYield
          /\ tk' = [tk EXCEPT !.seed = s,
                              !.dirs = [j \in 1..kept |-> j],
                              !.pc = IF kept = 0 THEN "seed" ELSE "dirs"]
  /\ UNCHANGED <<gwVars, bdVars>>

\* The outcomes of the test "return_all or status in (ENDPOINT,
\* OUTSIDEIMAGE)" over the statuses the tracker can return.
KeepOutcomes(return_all) ==
  {KeepStatus(return_all, st) : st \in StreamlineStatus}

\* One iteration of "for first_step in directions".
TrackDirection ==
  /\ tk.pc = "dirs"
  /\ LET s == tk.seed
         d == Head(tk.dirs)
         rest == Tail(tk.dirs)
         pcNext == IF rest = <<>> THEN "seed" ELSE "dirs"
     IN \E stepsF \in 1..(tk.max_length + 1),
           keepF \in KeepOutcomes(tk.return_all) :
          LET F1 == TrackerWrite(tk.F, s, d, "F", stepsF) IN
          \/ /\ ~keepF
             /\ tk' = [tk EXCEPT !.F = F1, !.dirs = rest, !.pc = pcNext]
             /\ out' = NoYield
          \/ /\ keepF
             /\ \E stepsB \in 1..(tk.max_length + 1),
                   keepB \in KeepOutcomes(tk.return_all) :
                  LET B1 == TrackerWrite(tk.B, s, d, "B", stepsB)
                      streamline == Stitch(F1, B1, stepsF, stepsB)
                  IN /\ tk' = [tk EXCEPT !.F = F1, !.B = B1,
                                         !.dirs = rest, !.pc = pcNext]
                     /\ out' =
                          IF /\ keepB
                             /\ LengthOK(Len(streamline), tk.min_length,
                                         tk.max_length)
                            THEN [kind |-> "stitched", sl |-> streamline,
                                  with_seed |-> tk.save_seeds, s |-> s,
                                  d |-> d, stepsF |-> stepsF,
                                  stepsB |-> stepsB]
                            ELSE NoYield
  /\ UNCHANGED <<gwVars, bdVars>>

\* The seeds are exhausted: the generator ends.
EndOfSeeds ==
  /\ tk.pc = "seed"
  /\ tk.seed = tk.nseeds
  /\ tk' = [tk EXCEPT !.pc = "done"]
  /\ out' = NoYield
  /\ UNCHANGED <<gwVars, bdVars>>

NextTrack == NextSeed \/ TrackDirection \/ EndOfSeeds

(***************************************************************************)
(*                        PART 2: gaussian_weights                         *)
(***************************************************************************)

\* Bounds of the weighting model: streamlines, nodes, and the coordinates
\* 0..MaxCoord of a point (n_dim = 2).
MaxSls == 3
MaxNodes == 2
MaxCoord == 2

\* The points of the grid with an even coordinate sum: they hold a point on
\* the mean of two others, columns of equal coordinates and regular nodes.
Points == {p \in (0..MaxCoord) \X (0..MaxCoord) : (p[1] + p[2]) % 2 = 0}

\* The arrays sls of shape (n_sls, n_nodes, 2) with bundle.shape[1] equal
\* to n_points, so that no resampling takes place.
Bundles ==
  UNION {[1..n -> [1..m -> Points]] : n \in 1..MaxSls, m \in 1..MaxNodes}

\* Floating-point values are kept exactly: a Mahalanobis distance is the
\* square root of the rational num/den, held as [num, den]; inf and nan
\* are values of their own.
Dist(num, den) == [kind |-> "dist", num |-> num, den |-> den]
FZero == Dist(0, 1)
FInf == [kind |-> "inf"]
FNan == [kind |-> "nan"]
FOne == [kind |-> "one"]
\* The quotient (1 / sqrt(num/den)) / (the column's sum of such terms),
\* where every term of the column is finite.
Share(num, den) == [kind |-> "share", num |-> num, den |-> den]

IsZeroDist(w) == w.kind = "dist" /\ w.num = 0

\* n * (stat(sls, axis=0) - sls)[s, i, c] for stat = np.mean
ScaledDiff(sls, s, i, c) ==
  SumSeq([t \in 1..Len(sls) |-> sls[t][i][c]]) - Len(sls) * sls[s][i][c]

\* n^3 * np.cov(sls[:, i, :].T, ddof=0)[c1, c2]
ScaledCov(sls, i, c1, c2) ==
  SumSeq([t \in 1..Len(sls) |->
            ScaledDiff(sls, t, i, c1) * ScaledDiff(sls, t, i, c2)])

\* np.linalg.matrix_rank(np.triu(cov)) == n_dim, for the 2 x 2 matrix
\* [[a, b], [0, c]]
FullRank(sls, i) ==
  ScaledCov(sls, i, 1, 1) # 0 /\ ScaledCov(sls, i, 2, 2) # 0

\* weights[s, i] after the loop body for node i:
\* sqrt(sum((diff @ inv(triu(cov))) * diff)) when the rank is full, else 0.
\* With v = [[a, b], [0, c]], inv(v) = [[1/a, -b/(a c)], [0, 1/c]] and the
\* sum is (dx^2 c - dx dy b + dy^2 a) / (a c).
NodeWeight(sls, s, i) ==
  IF FullRank(sls, i)
    THEN LET n == Len(sls)
             A == ScaledCov(sls, i, 1, 1)
             B == ScaledCov(sls, i, 1, 2)
             C == ScaledCov(sls, i, 2, 2)
             dx == ScaledDiff(sls, s, i, 1)
             dy == ScaledDiff(sls, s, i, 2)
         IN Dist(n * (dx * dx * C - dx * dy * B + dy * dy * A), A * C)
    ELSE FZero

\* weights = 1 / weights
Reciprocal(w) == IF IsZeroDist(w) THEN FInf ELSE w

\* weights / np.sum(weights, 0), entry (s, i), of the reciprocals inv:
\* a column holding an inf sums to inf; inf / inf is nan, finite / inf is 0.
Normalised(inv, s, i) ==
  IF \E t \in 1..Len(inv) : inv[t][i].kind = "inf"
    THEN IF inv[s][i].kind = "inf" THEN FNan ELSE FZero
    ELSE Share(inv[s][i].num, inv[s][i].den)

\* np.sum(result, 0)[i] of a returned weight array.
ColumnSum(data, i) ==
  IF \E t \in 1..Len(data) : data[t][i].kind = "nan" THEN FNan
  ELSE IF \A t \in 1..Len(data) : data[t][i].kind = "share" THEN FOne
  ELSE FZero

InitGW ==
  /\ \E b \in Bundles, rm \in BOOLEAN :
       gw = [pc |-> "start", sls |-> b, return_mahalnobis |-> rm,
             n_sls |-> Len(b), n_nodes |-> Len(b[1]), i |-> 0,
             weights |-> <<>>, shape |-> <<>>, data |-> <<>>]
  /\ tk = Idle /\ out = Idle
  /\ insts = <<>> /\ heap = <<>> /\ ctor = Idle /\ lastOp = Idle
  /\ nops = 0 /\ rr = {}

\* if len(bundle) == 1: return np.array([nan]) or np.array([1])
GwSingle ==
  /\ gw.pc = "start"
  /\ gw.n_sls = 1
  /\ gw' = [gw EXCEPT !.pc = "done", !.shape = <<1>>,
                      !.data = IF gw.return_mahalnobis THEN <<FNan>>
                                                       ELSE <<FOne>>]
  /\ UNCHANGED <<trackVars, bdVars>>

\* weights = np.zeros((n_sls, n_nodes))
GwAlloc ==
  /\ gw.pc = "start"
  /\ gw.n_sls # 1
  /\ gw' = [gw EXCEPT !.pc = "loop",
                      !.weights = [s \in 1..gw.n_sls |->
                                     [i \in 1..gw.n_nodes |-> FZero]]]
  /\ UNCHANGED <<trackVars, bdVars>>

\* One iteration of "for i in range(n_nodes)".
GwNode ==
  /\ gw.pc = "loop"
  /\ gw.i < gw.n_nodes
  /\ LET i == gw.i + 1 IN
     gw' = [gw EXCEPT !.i = i,
                      !.weights = [s \in 1..gw.n_sls |->
                                     [gw.weights[s] EXCEPT
                                        ![i] = NodeWeight(gw.sls, s, i)]]]
  /\ UNCHANGED <<trackVars, bdVars>>

\* if return_mahalnobis: return weights
GwReturnMahalanobis ==
  /\ gw.pc = "loop"
  /\ gw.i = gw.n_nodes
  /\ gw.return_mahalnobis
  /\ gw' = [gw EXCEPT !.pc = "done", !.shape = <<gw.n_sls, gw.n_nodes>>,
                      !.data = gw.weights]
  /\ UNCHANGED <<trackVars, bdVars>>

\* weights = 1 / weights; return weights / np.sum(weights, 0)
GwReturnWeights ==
  /\ gw.pc = "loop"
  /\ gw.i = gw.n_nodes
  /\ ~gw.return_mahalnobis
  /\ LET inv == [s \in 1..gw.n_sls |->
                   [i \in 1..gw.n_nodes |-> Reciprocal(gw.weights[s][i])]]
     IN gw' = [gw EXCEPT !.pc = "done",
                         !.shape = <<gw.n_sls, gw.n_nodes>>,
                         !.data = [s \in 1..gw.n_sls |->
                                     [i \in 1..gw.n_nodes |->
                                        Normalised(inv, s, i)]]]
  /\ UNCHANGED <<trackVars, bdVars>>

NextGW ==
  GwSingle \/ GwAlloc \/ GwNode \/ GwReturnMahalanobis \/ GwReturnWeights

(***************************************************************************)
(*                    PART 3: BundleDict (bundle_dict.py)                  *)
(***************************************************************************)

\* Bounds of the dictionary model: the length of bundle_info and the number
\* of operations applied after construction.
MaxInfoLen == 2
MaxOps == 2

CALLOSUM_BUNDLES == {"AntFrontal", "Occipital", "Orbital"}

\* The bundle names of the model: one left/right bundle, the two forceps,
\* three callosal bundles, and the custom bundle of the tutorial.
ListNames == {"SLF_L", "FP", "FA"} \cup CALLOSUM_BUNDLES
DictKeys == {"FP", "Occipital", "L_OR"}
OpKeys == {"SLF_L", "FP", "L_OR"}

\* bundle_name[:-2]
NameOf(b) ==
  CASE b = "SLF_L" -> "SLF"
    [] b = "FP" -> ""
    [] b = "FA" -> ""
    [] b = "Occipital" -> "Occipit"
    [] b = "Orbital" -> "Orbit"
    [] b = "AntFrontal" -> "AntFront"
    [] b = "L_OR" -> "L_"

\* bundle_name[-2:]
HemiOf(b) ==
  CASE b = "SLF_L" -> "_L"
    [] b = "FP" -> "FP"
    [] b = "FA" -> "FA"
    [] b \in CALLOSUM_BUNDLES -> "al"
    [] b = "L_OR" -> "OR"

\* An ROI image: where it comes from and how often afd.read_resample_roi
\* has been applied to it.
Roi(src) == [src |-> src, n |-> 0]
NoneRoi == Roi("None")

\* The definition the tutorial passes: start and end only.
TutorialDef ==
  [start |-> Roi("leftThal"), end |-> Roi("LV1"),
   cross_midline |-> FALSE, space |-> "subject"]

\* A custom definition with waypoint ROIs.
WaypointDef ==
  [include |-> <<Roi("way1")>>, exclude |-> <<>>, cross_midline |-> FALSE]

DefOfKind(kind) == IF kind = "tutorial" THEN TutorialDef ELSE WaypointDef
DefKinds == {"tutorial", "waypoint"}

\* Python dicts keep insertion order: a dict is a sequence of <<key, value>>.
DictHas(d, k) == \E j \in 1..Len(d) : d[j][1] = k
DictGet(d, k) == d[CHOOSE j \in 1..Len(d) : d[j][1] = k][2]
DictPut(d, k, v) ==
  IF DictHas(d, k)
    THEN [j \in 1..Len(d) |-> IF d[j][1] = k THEN <<k, v>> ELSE d[j]]
    ELSE Append(d, <<k, v>>)
DictKeySet(d) == {d[j][1] : j \in 1..Len(d)}
InSeq(x, q) == \E j \in 1..Len(q) : q[j] = x

\* list.remove(x): drops the first occurrence.
ListRemove(q, x) ==
  LET j == CHOOSE j \in 1..Len(q) :
             q[j] = x /\ \A l \in 1..(j - 1) : q[l] # x
  IN SubSeq(q, 1, j - 1) \o SubSeq(q, j + 1, Len(q))

\* The program state an operation works on, with the exception it raised
\* and the number of gen and load_templates calls it made.
World ==
  [insts |-> insts, heap |-> heap, rr |-> rr, exc |-> "none",
   gens |-> 0, loads |-> 0]
Ok(w) == w.exc = "none"
Raise(w, e) == [w EXCEPT !.exc = e]

\* afd.read_resample_roi(roi, resample_to=...)
read_resample_roi(roi) == [roi EXCEPT !.n = @ + 1]

ResampleList(l) == [j \in 1..Len(l) |-> read_resample_roi(l[j])]

\* self._dict[key].get(f) is truthy
HasRoi(d, f) == f \in DOMAIN d /\ d[f] # NoneRoi
HasRoiList(d, f) == f \in DOMAIN d /\ d[f] # <<>>

IsMarked(d) == "resampled" \in DOMAIN d /\ d.resampled

\* The ROIs of a definition.
RoisOf(d) ==
  (IF "include" \in DOMAIN d
     THEN {d.include[j] : j \in 1..Len(d.include)} ELSE {})
  \cup (IF "exclude" \in DOMAIN d
          THEN {d.exclude[j] : j \in 1..Len(d.exclude)} ELSE {})
  \cup (IF "start" \in DOMAIN d THEN {d.start} ELSE {})
  \cup (IF "end" \in DOMAIN d THEN {d.end} ELSE {})

\* The resampling of one definition, once it is known to have "include".
Resampled(d) ==
  LET d1 == [d EXCEPT !.include = ResampleList(@)]
      d2 == IF HasRoiList(d1, "exclude")
              THEN [d1 EXCEPT !.exclude = ResampleList(@)] ELSE d1
      d3 == IF HasRoi(d2, "start")
              THEN [d2 EXCEPT !.start = read_resample_roi(@)] ELSE d2
      d4 == IF HasRoi(d3, "end")
              THEN [d3 EXCEPT !.end = read_resample_roi(@)] ELSE d3
  IN ("resampled" :> TRUE) @@ d4

\* resample_roi without the test of the "resampled" mark.
resample_roi_unmarked(w, i, key) ==
  LET inst == w.insts[i]
      id == DictGet(inst.dict, key)
      d == w.heap[id]
  IN IF ~Ok(w) THEN w
     ELSE IF inst.resample_to = "False" THEN w
     ELSE IF "include" \notin DOMAIN d THEN Raise(w, "KeyError")
     ELSE [w EXCEPT !.heap[id] = Resampled(d),
                    !.rr = IF Resampled(d) = (("resampled" :> TRUE) @@ d)
                             THEN @ ELSE @ \cup {inst.resample_to}]

\* _GeneratedBundleDict.resample_roi
resample_roi(w, i, key) ==
  LET inst == w.insts[i]
      id == DictGet(inst.dict, key)
      d == w.heap[id]
  IN IF ~Ok(w) THEN w
     ELSE IF inst.resample_to = "False" THEN w
     ELSE IF IsMarked(d) THEN w
     ELSE IF "include" \notin DOMAIN d THEN Raise(w, "KeyError")
     ELSE [w EXCEPT !.heap[id] = Resampled(d),
                    !.rr = IF Resampled(d) = (("resampled" :> TRUE) @@ d)
                             THEN @ ELSE @ \cup {inst.resample_to}]

\* _GeneratedBundleDict.__setitem__, the item being heap object id
setitem(w, i, key, id) ==
  IF ~Ok(w) THEN w
  ELSE resample_roi(
         [w EXCEPT !.insts[i].dict = DictPut(@, key, id),
                   !.insts[i].bundle_names = Append(@, key)],
         i, key)

\* afd.read_templates(): the keys of the waypoint ROIs and probability maps
AFQTemplateKeys ==
  {"SLF_roi1_L", "SLF_roi2_L", "SLF_roi1_R", "SLF_roi2_R",
   "SLFt_roi2_L", "SLFt_roi2_R", "FP_L", "FP_R", "FA_L", "FA_R",
   "SLF_L_prob_map", "FP_prob_map", "FA_prob_map"}

\* afd.read_callosum_templates()
CallosalTemplateKeys ==
  {"L_" \o b : b \in CALLOSUM_BUNDLES} \cup {"R_" \o b : b \in CALLOSUM_BUNDLES}
  \cup {"Callosum_midsag"}

\* afd.bundles_to_aal(self.bundle_names): endpoint ROIs of the bundles that
\* have them
EndpointTemplateKeys(bundle_names) ==
  UNION {{b \o "_start", b \o "_end"} :
           b \in {c \in {"SLF_L"} : InSeq(c, bundle_names)}}

\* afd.read_hcp_atlas(80)["SLF_L"]: the one bundle of the model that the
\* 80-bundle atlas holds (the 16-bundle atlas holds none of them)
RecoAtlasBundle == [sl |-> "SLF_L", centroid |-> "SLF_L"]

\* afd.read_pediatric_templates()
PediatricTemplateKeys == {"mid-saggital", "SLF_roi1_L", "SLF_roi2_L"}

\* BundleDict.load_templates
BundleDict_load_templates(w, i) ==
  LET inst == w.insts[i]
      w0 == [w EXCEPT !.loads = @ + 1, !.insts[i].loads = @ + 1]
  IN IF inst.seg_algo = "afq"
       THEN [w0 EXCEPT
               !.insts[i].templates =
                 AFQTemplateKeys
                 \cup {"ARC_roi1_L", "ARC_roi1_R", "ARC_roi2_L", "ARC_roi2_R"}
                 \cup CallosalTemplateKeys
                 \cup EndpointTemplateKeys(inst.bundle_names),
               !.insts[i].templates_loaded = TRUE]
     ELSE IF inst.seg_algo \in {"reco", "reco16", "reco80"}
       THEN LET id == Len(w.heap) + 1 IN
            [w0 EXCEPT
               !.heap = IF inst.seg_algo = "reco80"
                          THEN Append(@, RecoAtlasBundle) ELSE @,
               !.insts[i].reco = IF inst.seg_algo = "reco80"
                                   THEN <<<<"SLF_L", id>>>> ELSE <<>>,
               !.insts[i].templates_loaded = TRUE]
     ELSE Raise(w0, "ValueError")

\* PediatricBundleDict.load_templates: self.pediatric_templates is set
\* nowhere, so the read of it raises; templates_loaded is never assigned.
Pediatric_load_templates(w, i) ==
  Raise([w EXCEPT !.loads = @ + 1, !.insts[i].loads = @ + 1,
                  !.insts[i].templates = PediatricTemplateKeys],
        "AttributeError")

load_templates(w, i) ==
  IF w.insts[i].cls = "PediatricBundleDict"
    THEN Pediatric_load_templates(w, i)
    ELSE BundleDict_load_templates(w, i)

\* The definition gen builds in the "afq" branch from the templates T.
AfqDefinition(T, b) ==
  LET name == NameOf(b)
      hemi == HemiOf(b)
      major == b \in CALLOSUM_BUNDLES \/ b \in {"FA", "FP"}
      roi_name1 == IF b \in CALLOSUM_BUNDLES THEN "L_" \o b
                   ELSE IF b \in {"FA", "FP"} THEN b \o "_L"
                   ELSE name \o "_roi1" \o hemi
      roi_name2 == IF b \in CALLOSUM_BUNDLES THEN "R_" \o b
                   ELSE IF b \in {"FA", "FP"} THEN b \o "_R"
                   ELSE name \o "_roi2" \o hemi
      roi3 == name \o "_roi3" \o hemi
      include == <<Roi(roi_name1), Roi(roi_name2)>>
                 \o (IF roi3 \in T THEN <<Roi(roi3)>> ELSE <<>>)
                 \o (IF major THEN <<Roi("Callosum_midsag")>> ELSE <<>>)
      exclude == IF name = "SLF" THEN <<Roi("SLFt_roi2" \o hemi)>> ELSE <<>>
      \* the "_end" template is assigned to start as well; end stays None
      start == IF (b \o "_end") \in T THEN Roi(b \o "_end")
               ELSE IF (b \o "_start") \in T THEN Roi(b \o "_start")
               ELSE NoneRoi
      base == [include |-> include, exclude |-> exclude, start |-> start,
               end |-> NoneRoi, cross_midline |-> major]
  IN [found |-> roi_name1 \in T /\ roi_name2 \in T,
      def |-> IF (b \o "_prob_map") \in T
                THEN ("prob_map" :> Roi(b \o "_prob_map")) @@ base
                ELSE base]

\* BundleDict.gen
gen(w, i, b) ==
  IF ~Ok(w) THEN w
  ELSE
    LET w0 == [w EXCEPT !.gens = @ + 1]
        w1 == IF w0.insts[i].templates_loaded THEN w0
              ELSE load_templates(w0, i)
    IN IF ~Ok(w1) THEN w1
       ELSE
         LET inst == w1.insts[i]
             id == Len(w1.heap) + 1
         IN IF inst.seg_algo = "afq"
              THEN LET r == AfqDefinition(inst.templates, b) IN
                   IF r.found
                     THEN resample_roi(
                            [w1 EXCEPT !.heap = Append(@, r.def),
                                       !.insts[i].dict = DictPut(@, b, id)],
                            i, b)
                     ELSE Raise(w1, "ValueError")
            ELSE IF inst.seg_algo \in {"reco", "reco16", "reco80"}
              THEN IF DictHas(inst.reco, b)
                     THEN [w1 EXCEPT !.insts[i].dict =
                                       DictPut(@, b, DictGet(inst.reco, b))]
                     ELSE Raise(w1, "KeyError")
            ELSE w1

\* BundleDict.gen_all, from position j of bundle_names on
RECURSIVE gen_all_from(_, _, _)
gen_all_from(w, i, j) ==
  IF ~Ok(w) \/ j > Len(w.insts[i].bundle_names) THEN w
  ELSE LET b == w.insts[i].bundle_names[j] IN
       gen_all_from(IF DictHas(w.insts[i].dict, b) THEN w ELSE gen(w, i, b),
                    i, j + 1)

gen_all(w, i) == gen_all_from(w, i, 1)

\* A __getitem__ that generates the definition on every call.
getitem_always_gen(w, i, key) == gen(w, i, key)

\* BundleDict.__getitem__: the world after it; the value returned is
\* DictGet of the dictionary when no exception was raised.
getitem(w, i, key) ==
  IF DictHas(w.insts[i].dict, key) THEN w ELSE gen(w, i, key)

\* The "for key, item in bundle_info.items(): self.__setitem__(key, item)"
\* loop, from position j on.
RECURSIVE set_items_from(_, _, _, _)
set_items_from(w, i, items, j) ==
  IF ~Ok(w) \/ j > Len(items) THEN w
  ELSE set_items_from(setitem(w, i, items[j][1], items[j][2]),
                      i, items, j + 1)

\* The warnings of __init__ for co-located bundles: bundle_names.remove
Colocated(bundle_names) ==
  LET n1 == IF InSeq("FP", bundle_names) /\ InSeq("Occipital", bundle_names)
              THEN ListRemove(bundle_names, "FP") ELSE bundle_names
      n2 == IF InSeq("FA", n1) /\ InSeq("Orbital", n1)
              THEN ListRemove(n1, "FA") ELSE n1
      n3 == IF InSeq("FA", n2) /\ InSeq("AntFrontal", n2)
              THEN ListRemove(n2, "FA") ELSE n2
  IN n3

\* BundleDict.__init__ (PediatricBundleDict.__init__ passes its arguments
\* on to it): the new instance becomes the last of w.insts; when the
\* constructor raises, no instance is added.  info is
\* [type |-> "list", names |-> ...] or [type |-> "dict", items |-> ...],
\* the items being <<key, heap object>>.
BundleDict_init(w, cls, info, seg_algo, resample_to) ==
  LET i == Len(w.insts) + 1
      fresh == [cls |-> cls, seg_algo |-> seg_algo,
                resample_to |-> IF resample_to = "None" THEN "MNI"
                                ELSE resample_to,
                dict |-> <<>>, bundle_names |-> <<>>,
                templates_loaded |-> FALSE, templates |-> {},
                reco |-> <<>>, loads |-> 0,
                from_list |-> info.type = "list", touched |-> FALSE]
      w0 == [w EXCEPT !.insts = Append(@, fresh)]
      w1 == IF info.type = "dict"
              THEN set_items_from(w0, i, info.items, 1)
              ELSE [w0 EXCEPT !.insts[i].bundle_names = info.names]
      w2 == IF Ok(w1) /\ seg_algo = "afq"
              THEN [w1 EXCEPT !.insts[i].bundle_names = Colocated(@)]
              ELSE w1
  IN IF Ok(w2) THEN w2 ELSE [w2 EXCEPT !.insts = SubSeq(@, 1, i - 1)]

\* BundleDict.copy
copy(w, i) ==
  LET w1 == gen_all(w, i) IN
  IF ~Ok(w1) THEN w1
  ELSE BundleDict_init(w1, w1.insts[i].cls,
                       [type |-> "dict", items |-> w1.insts[i].dict],
                       w1.insts[i].seg_algo, w1.insts[i].resample_to)

\* ---- the state machine ----

ListInfos ==
  {[type |-> "list", names |-> q] :
     q \in UNION {[1..n -> ListNames] : n \in 0..MaxInfoLen}}

DictInfos ==
  {[type |-> "dict", items |-> q] :
     q \in {r \in UNION {[1..n -> DictKeys \X DefKinds] : n \in 1..MaxInfoLen} :
              \A a, b \in 1..Len(r) : a # b => r[a][1] # r[b][1]}}

\* The classes and seg_algo values of the model; "bogus" is a seg_algo that
\* load_templates rejects.
ClassAndAlgo ==
  {<<"BundleDict", "afq">>, <<"BundleDict", "reco80">>,
   <<"BundleDict", "bogus">>, <<"PediatricBundleDict", "afq">>}

InitBD ==
  /\ \E info \in ListInfos \cup DictInfos, ca \in ClassAndAlgo,
        rt \in {"None", "False", "IMG"} :
       ctor = [pc |-> "new", cls |-> ca[1], seg_algo |-> ca[2],
               info |-> info, resample_to |-> rt]
  /\ insts = <<>>
  /\ heap = <<>>
  /\ lastOp = [op |-> "none"]
  /\ nops = 0
  /\ rr = {}
  /\ tk = Idle /\ out = Idle /\ gw = Idle

Commit(w) ==
  /\ insts' = w.insts
  /\ heap' = w.heap
  /\ rr' = w.rr

Touch(w, i) == [w EXCEPT !.insts[i].touched = TRUE]

\* The call of the constructor.  The definitions of a dict bundle_info are
\* the caller's objects.
Construct ==
  /\ ctor.pc = "new"
  /\ LET info == ctor.info
         w0 == IF info.type = "dict"
                 THEN [World EXCEPT !.heap =
                         [j \in 1..Len(info.items) |->
                            DefOfKind(info.items[j][2])]]
                 ELSE World
         arg == IF info.type = "dict"
                  THEN [type |-> "dict",
                        items |-> [j \in 1..Len(info.items) |->
                                     <<info.items[j][1], j>>]]
                  ELSE info
         w == BundleDict_init(w0, ctor.cls, arg, ctor.seg_algo,
                              ctor.resample_to)
     IN /\ Commit(w)
        /\ ctor' = [ctor EXCEPT !.pc = IF Ok(w) THEN "built" ELSE "raised"]
        /\ lastOp' = [op |-> "init", exc |-> w.exc]
  /\ UNCHANGED <<nops, trackVars, gwVars>>

CanOperate == ctor.pc = "built" /\ nops < MaxOps

\* value = bd[key]
GetItem ==
  /\ CanOperate
  /\ \E i \in 1..Len(insts), key \in OpKeys :
       LET had == DictHas(insts[i].dict, key)
           w == Touch(getitem(World, i, key), i)
       IN /\ Commit(w)
          /\ lastOp' = [op |-> "getitem", i |-> i, key |-> key, had |-> had,
                        idBefore |-> IF had THEN DictGet(insts[i].dict, key)
                                     ELSE 0,
                        gens |-> w.gens, loads |-> w.loads, exc |-> w.exc,
                        result |-> IF Ok(w) THEN DictGet(w.insts[i].dict, key)
                                   ELSE 0]
  /\ nops' = nops + 1
  /\ UNCHANGED <<ctor, trackVars, gwVars>>

\* bd.gen(key)
Gen ==
  /\ CanOperate
  /\ \E i \in 1..Len(insts), key \in OpKeys :
       LET w == Touch(gen(World, i, key), i)
       IN /\ Commit(w)
          /\ lastOp' = [op |-> "gen", i |-> i, key |-> key,
                        loadedBefore |-> insts[i].templates_loaded,
                        gens |-> w.gens, loads |-> w.loads, exc |-> w.exc]
  /\ nops' = nops + 1
  /\ UNCHANGED <<ctor, trackVars, gwVars>>

\* bd[key] = item, for a new definition of the caller
SetNewItem ==
  /\ CanOperate
  /\ \E i \in 1..Len(insts), kind \in DefKinds :
       LET id == Len(heap) + 1
           w0 == [World EXCEPT !.heap = Append(@, DefOfKind(kind))]
           w == Touch(setitem(w0, i, "L_OR", id), i)
       IN /\ Commit(w)
          /\ lastOp' = [op |-> "setitem", i |-> i, key |-> "L_OR",
                        exc |-> w.exc]
  /\ nops' = nops + 1
  /\ UNCHANGED <<ctor, trackVars, gwVars>>

\* bd[key] = other[key2]: a definition some dictionary already holds
SetHeldItem ==
  /\ CanOperate
  /\ \E i \in 1..Len(insts), l \in 1..Len(insts) :
       \E j \in 1..Len(insts[l].dict) :
         LET w == Touch(setitem(World, i, "L_OR", insts[l].dict[j][2]), i)
         IN /\ Commit(w)
            /\ lastOp' = [op |-> "setitem", i |-> i, key |-> "L_OR",
                          exc |-> w.exc]
  /\ nops' = nops + 1
  /\ UNCHANGED <<ctor, trackVars, gwVars>>

\* bd.gen_all()
GenAll ==
  /\ CanOperate
  /\ \E i \in 1..Len(insts) :
       LET w == Touch(gen_all(World, i), i)
       IN /\ Commit(w)
          /\ lastOp' = [op |-> "gen_all", i |-> i, gens |-> w.gens,
                        loads |-> w.loads, exc |-> w.exc]
  /\ nops' = nops + 1
  /\ UNCHANGED <<ctor, trackVars, gwVars>>

\* iter(bd): BundleDict.__iter__
Iterate ==
  /\ CanOperate
  /\ \E i \in 1..Len(insts) :
       LET w == Touch(gen_all(World, i), i)
       IN /\ Commit(w)
          /\ lastOp' = [op |-> "iter", i |-> i, gens |-> w.gens,
                        loads |-> w.loads, exc |-> w.exc,
                        first |-> ~insts[i].touched,
                        result |-> IF Ok(w) THEN DictKeySet(w.insts[i].dict)
                                   ELSE {}]
  /\ nops' = nops + 1
  /\ UNCHANGED <<ctor, trackVars, gwVars>>

\* bd.copy()
Copy ==
  /\ CanOperate
  /\ \E i \in 1..Len(insts) :
       LET w == Touch(copy(World, i), i)
       IN /\ Commit(w)
          /\ lastOp' = [op |-> "copy", i |-> i, gens |-> w.gens,
                        loads |-> w.loads, exc |-> w.exc,
                        result |-> IF Ok(w) THEN Len(w.insts) ELSE 0]
  /\ nops' = nops + 1
  /\ UNCHANGED <<ctor, trackVars, gwVars>>

NextBD ==
  \/ Construct \/ GetItem \/ Gen \/ SetNewItem \/ SetHeldItem
  \/ GenAll \/ Iterate \/ Copy

(***************************************************************************)
(*                           Specifications                                *)
(***************************************************************************)

(***************************************************************************)
(*                               Claims                                    *)
(***************************************************************************)

\* C1: a BundleDict built from a list of names has loaded no templates and
\* stores no definition until an operation asks for one; a __getitem__ of a
\* name that has no stored definition calls gen once, and a __getitem__ of a
\* name whose definition is stored returns that stored definition without
\* calling gen.
C1_LazyResolution ==
  /\ \A i \in 1..Len(insts) :
       (insts[i].from_list /\ ~insts[i].touched) =>
         /\ insts[i].dict = <<>>
         /\ ~insts[i].templates_loaded
         /\ insts[i].loads = 0
  /\ (lastOp.op = "getitem" /\ lastOp.had) =>
       /\ lastOp.gens = 0
       /\ lastOp.exc = "none"
       /\ lastOp.result = lastOp.idBefore
  /\ (lastOp.op = "getitem" /\ ~lastOp.had) => lastOp.gens = 1

\* A second __getitem__ of a name of a list-built dictionary, the first call
\* having generated its definition.
C1_Witness ==
  /\ lastOp.op = "getitem"
  /\ lastOp.had
  /\ insts[lastOp.i].from_list
  /\ lastOp.result > 0

\* C2 (as claimed): every streamline the generator yields has between
\* min_length and max_length points.
C2_EveryYieldWithinLengths ==
  out.kind # "none" =>
    tk.min_length <= Len(out.sl) /\ Len(out.sl) <= tk.max_length

\* C2 (amended): every streamline yielded after tracking a first step has
\* between min_length and max_length points; the seed-only streamline,
\* yielded when there is no initial direction and return_all is set, has
\* exactly one point whatever min_length is.
C2_StitchedWithinLengths ==
  /\ out.kind = "stitched" =>
       tk.min_length <= Len(out.sl) /\ Len(out.sl) <= tk.max_length
  /\ out.kind = "seedonly" => Len(out.sl) = 1 /\ tk.return_all

\* A stitched streamline of exactly max_length points, both directions
\* having moved away from the seed.
C2_Witness ==
  /\ out.kind = "stitched"
  /\ out.stepsB > 1
  /\ out.stepsF > 1
  /\ Len(out.sl) = tk.max_length

\* C3: the yielded streamline is the backward points in reverse order
\* without the seed, then the forward points in order: stepsF + stepsB - 1
\* points, the seed exactly once, at (0-based) index stepsB - 1, and the
\* forward part alone when stepsB = 1.
C3_Stitching ==
  out.kind = "stitched" =>
    LET sl == out.sl
        sF == out.stepsF
        sB == out.stepsB
        forward == [j \in 1..sF |-> IF j = 1 THEN SeedPt(out.s)
                                    ELSE TrackPt(out.s, out.d, "F", j - 1)]
    IN /\ Len(sl) = sF + sB - 1
       /\ \A j \in 1..(sB - 1) : sl[j] = TrackPt(out.s, out.d, "B", sB - j)
       /\ \A j \in 1..sF : sl[sB - 1 + j] = forward[j]
       /\ sl[sB] = SeedPt(out.s)
       /\ Cardinality({j \in 1..Len(sl) : sl[j] = SeedPt(out.s)}) = 1
       /\ (sB = 1 => sl = forward)

\* A streamline stitched from a backward and a forward part of two points
\* each, the buffers holding rows of an earlier first step.
C3_Witness ==
  /\ out.kind = "stitched"
  /\ out.stepsB = 2
  /\ out.stepsF = 2
  /\ out.d = 2
  /\ \E j \in 1..Len(tk.F) : tk.F[j] = Stale

\* C4: with two or more streamlines and return_mahalnobis False, the
\* returned weights sum to 1 at every node.
C4_WeightsSumToOne ==
  (gw.pc = "done" /\ ~gw.return_mahalnobis /\ gw.n_sls >= 2) =>
    \A i \in 1..gw.n_nodes : ColumnSum(gw.data, i) = FOne

\* C5: the returned array has shape (n_streamlines, n_points).
C5_ResultShape ==
  gw.pc = "done" => gw.shape = <<gw.n_sls, gw.n_nodes>>

\* The call of the tutorial: BundleDict({"L_OR": {start, end, cross_midline,
\* space}}) with the default seg_algo and resample_to.
TutorialCall ==
  /\ ctor.cls = "BundleDict"
  /\ ctor.seg_algo = "afq"
  /\ ctor.resample_to = "None"
  /\ ctor.info = [type |-> "dict", items |-> <<<<"L_OR", "tutorial">>>>]

\* C6: the call of the tutorial returns a dictionary, and the bundle can be
\* retrieved from it by its name.
C6_TutorialConstructs ==
  (ctor.pc # "new" /\ TutorialCall) =>
    /\ ctor.pc = "built"
    /\ DictHas(insts[1].dict, "L_OR")
    /\ (lastOp.op = "getitem" /\ lastOp.i = 1 /\ lastOp.key = "L_OR") =>
         lastOp.exc = "none"

\* The names bundle_info gives.
InfoNames(info) ==
  IF info.type = "list"
    THEN {info.names[j] : j \in 1..Len(info.names)}
    ELSE {info.items[j][1] : j \in 1..Len(info.items)}

\* The bundles that __init__ says are not used.
Dropped(info) ==
  (IF {"FP", "Occipital"} \subseteq InfoNames(info) THEN {"FP"} ELSE {})
  \cup (IF "FA" \in InfoNames(info)
           /\ {"Orbital", "AntFrontal"} \cap InfoNames(info) # {}
          THEN {"FA"} ELSE {})

\* C7: right after the construction under seg_algo "afq", a dropped bundle
\* is in neither bundle_names nor the stored definitions, and an iteration
\* over the new dictionary does not give it.
C7_ColocatedDropped ==
  (ctor.pc = "built" /\ ctor.seg_algo = "afq") =>
    /\ lastOp.op = "init" =>
         \A b \in Dropped(ctor.info) :
           /\ ~InSeq(b, insts[1].bundle_names)
           /\ ~DictHas(insts[1].dict, b)
    /\ (lastOp.op = "iter" /\ lastOp.i = 1 /\ lastOp.first
        /\ lastOp.exc = "none") =>
         lastOp.result \cap Dropped(ctor.info) = {}

\* C8: afd.read_resample_roi is never called with resample_to False, and no
\* ROI of a definition is resampled more than once, whatever sequence of
\* __setitem__, __getitem__, gen, gen_all, iteration and copy is applied.
C8_ResamplingPolicy ==
  /\ "False" \notin rr
  /\ \A id \in 1..Len(heap) : \A r \in RoisOf(heap[id]) : r.n <= 1

\* A copy whose dictionary shares a resampled definition with its source.
C8_Witness ==
  /\ lastOp.op = "copy"
  /\ lastOp.exc = "none"
  /\ \E j \in 1..Len(insts[lastOp.result].dict) :
       LET id == insts[lastOp.result].dict[j][2] IN
       /\ IsMarked(heap[id])
       /\ \E r \in RoisOf(heap[id]) : r.n = 1
       /\ \E l \in 1..Len(insts[lastOp.i].dict) :
            insts[lastOp.i].dict[l][2] = id

\* C9: on one dictionary load_templates runs at most once; a gen that ran
\* it and returned leaves templates_loaded True, and a gen that finds
\* templates_loaded True does not run it.
C9_TemplatesLoadedOnce ==
  /\ \A i \in 1..Len(insts) : insts[i].loads <= 1
  /\ (lastOp.op = "gen" /\ lastOp.loads > 0 /\ lastOp.exc = "none") =>
       insts[lastOp.i].templates_loaded
  /\ (lastOp.op = "gen" /\ lastOp.loadedBefore) => lastOp.loads = 0

SpecTrack == InitTrack /\ [][NextTrack]_vars

SpecGW == InitGW /\ [][NextGW]_vars

SpecBD == InitBD /\ [][NextBD]_vars

====
